---- MODULE Spec2Model ----
(***************************************************************************)
(* Model of auto_nag/topcrash.py: Topcrash.get_signatures dispatches one   *)
(* SuperSearch query per criterion, every query's completion handler       *)
(* (Topcrash.__signatures_handler) merges its signature facet into the one *)
(* shared dictionary `data`, and get_signatures waits for the searches and *)
(* returns the dictionary.                                                 *)
(*                                                                         *)
(* The handlers run on the worker threads of the search library, so a      *)
(* handler is a sequence of steps that interleave with the other handlers  *)
(* and with the main thread.  Spec is that program.  SpecSerial is the     *)
(* same program under a scheduler that never runs two handlers at once,    *)
(* SpecLive the program with threads that keep running, SpecShipped the    *)
(* program over the criteria of TOP_CRASH_IDENTIFICATION_CRITERIA.         *)
(*                                                                         *)
(* SpecTriage is auto_nag/component_triagers.py: a ComponentTriagers       *)
(* object and its get_new_triage_owners.                                   *)
(***************************************************************************)
EXTENDS Integers, Sequences, FiniteSets, TLC

VARIABLES
    criteria,   \* the catalog the run iterates (TOP_CRASH_IDENTIFICATION_CRITERIA)
    responses,  \* responses[c]: the signature facet the service returns for criterion c
    data,       \* the shared dictionary: signature name -> [is_startup]
    searches,   \* the SuperSearch objects created so far (their params)
    mpc,        \* get_signatures: "dispatch", "wait", "returned", "raised"
    waited,     \* how many searches the wait loop has waited for
    handler,    \* handler[c]: [pc, i, present, old], the handler call of criterion c
    upserts,    \* history: the upserts the handlers have performed, in order
    triage      \* auto_nag/component_triagers.py: a ComponentTriagers object and
                \* its call of get_new_triage_owners

vars == <<criteria, responses, data, searches, mpc, waited, handler, upserts, triage>>

(***************************************************************************)
(* Bounds of the model.                                                    *)
(***************************************************************************)
\* a catalog has at most this many criteria
MaxCriteria == 2
\* tc_limit ranges over 1..MaxLimit
MaxLimit == 2
\* the facet sizes requested in one run sum to at most this; tc_startup_limit
\* ranges over 1..MaxRows
MaxRows == 2
\* at most this many facet entries of a run have no "startup_crash" key
MaxMalformed == 1
\* a rotation calendar names at most this many persons for a day
MaxPersons == 2

\* Topcrash.__init__: minimum_crashes defaults to 5
minimum_crashes == 5

(***************************************************************************)
(* Values.                                                                 *)
(***************************************************************************)
Min(a, b) == IF a < b THEN a ELSE b

Max(a, b) == IF a > b THEN a ELSE b

\* Signature names are opaque strings to the code: only equality matters.
SignatureNames == <<"S1", "S2", "S3", "S4", "S5", "S6">>

Names == {SignatureNames[k] : k \in 1..Min(MaxRows, Len(SignatureNames))}

Rank(name) == CHOOSE k \in 1..Len(SignatureNames) : SignatureNames[k] = name

\* a criterion: tc_startup_limit is <<>> when the key is absent, <<n>> when set;
\* a set one is above tc_limit, equal to it, or one below it
Criteria ==
    {crit \in [tc_limit : 1..MaxLimit,
               tc_startup_limit : {<<>>} \cup {<<s>> : s \in 1..MaxRows}] :
        crit.tc_startup_limit # <<>> => crit.tc_startup_limit[1] >= crit.tc_limit - 1}

\* "tc_startup_limit" in criteria
HasStartupLimit(crit) == crit.tc_startup_limit # <<>>

\* the counts around the threshold
Counts == {minimum_crashes - 1, minimum_crashes}

\* signature["facets"]: without the "startup_crash" key, or with the list of
\* the terms of the sub-facet
NoFacets == [k \in {} |-> <<>>]

FacetShapes ==
    {NoFacets,
     [startup_crash |-> <<"F">>],
     [startup_crash |-> <<"F", "T">>]}

Entries == [term : Names, count : Counts, facets : FacetShapes]

Malformed(e) == "startup_crash" \notin DOMAIN e.facets

(***************************************************************************)
(* Topcrash.__get_params_from_criteria: the "_facets_size" parameter.      *)
(***************************************************************************)
\* (a variant that always requests tc_limit rows)
facets_size_tc_limit(crit) == crit.tc_limit

facets_size(crit) ==
    IF HasStartupLimit(crit) THEN crit.tc_startup_limit[1] ELSE crit.tc_limit

get_params_from_criteria(crit) == [facets_size |-> facets_size(crit)]

(***************************************************************************)
(* The inputs of a run: a catalog and, per criterion, the facet the        *)
(* service answers with: at most the requested number of rows, one row per *)
(* signature.  Names are numbered in order of first appearance (renaming   *)
(* the signatures of a run does not change what the code does).            *)
(***************************************************************************)
RECURSIVE SumSizes(_)
SumSizes(cat) ==
    IF cat = <<>> THEN 0
    ELSE facets_size(Head(cat)) + SumSizes(Tail(cat))

Catalogs ==
    {cat \in UNION {[1..n -> Criteria] : n \in 1..MaxCriteria} :
        SumSizes(cat) <= MaxRows}

RECURSIVE FacetsOfLen(_)
FacetsOfLen(k) ==
    IF k = 0 THEN {<<>>}
    ELSE {Append(p[1], p[2]) :
            p \in {q \in FacetsOfLen(k - 1) \X Entries :
                     \A j \in 1..Len(q[1]) : q[1][j].term # q[2].term}}

FacetsUpTo(n) == UNION {FacetsOfLen(k) : k \in 0..n}

RECURSIVE Flatten(_)
Flatten(resp) ==
    IF resp = <<>> THEN <<>> ELSE Head(resp) \o Flatten(Tail(resp))

FirstAppearanceOrder(rows) ==
    \A j \in 1..Len(rows) :
        \/ Rank(rows[j].term) = 1
        \/ \E i \in 1..(j - 1) : Rank(rows[i].term) >= Rank(rows[j].term) - 1

WellFormedRun(resp) ==
    LET rows == Flatten(resp) IN
    /\ FirstAppearanceOrder(rows)
    /\ Cardinality({j \in 1..Len(rows) : Malformed(rows[j])}) <= MaxMalformed

RECURSIVE ResponsesFor(_, _)
ResponsesFor(cat, n) ==
    IF n = 0 THEN {<<>>}
    ELSE {Append(p[1], p[2]) :
            p \in {q \in ResponsesFor(cat, n - 1) \X FacetsUpTo(facets_size(cat[n])) :
                     WellFormedRun(Append(q[1], q[2]))}}

N == Len(criteria)

IdleHandler == [pc |-> "idle", i |-> 0, present |-> FALSE, old |-> FALSE]

\* no ComponentTriagers object in a run of get_signatures
NoTriage == [pc |-> "none"]

Init ==
    /\ triage = NoTriage
    /\ criteria \in Catalogs
    /\ responses \in ResponsesFor(criteria, Len(criteria))
    /\ data = [n \in {} |-> [is_startup |-> FALSE]]
    /\ searches = <<>>
    /\ mpc = "dispatch"
    /\ waited = 0
    /\ handler = [c \in 1..Len(criteria) |-> IdleHandler]
    /\ upserts = <<>>

(***************************************************************************)
(* Topcrash.__is_startup_crash.  The subscript signature["facets"]         *)
(* ["startup_crash"] raises KeyError when the key is absent.               *)
(***************************************************************************)
RaisesKeyError(signature) == "startup_crash" \notin DOMAIN signature.facets

is_startup_crash(signature) ==
    \E k \in 1..Len(signature.facets.startup_crash) :
        signature.facets.startup_crash[k] = "T"

(***************************************************************************)
(* Topcrash.__signatures_handler.handler.  A handler call is               *)
(* [pc, i, present, old]: pc is the place in the code, i the index (from   *)
(* 1) of the facet entry the loop is at, present the result of the test    *)
(* `name not in data` and old the flag read for `|=`.  A step of a handler *)
(* is one access to the shared dictionary (a test or a store) together     *)
(* with the code that follows it up to the next access; that code touches  *)
(* only the handler's own variables.                                       *)
(***************************************************************************)
Running == {"primary_test", "primary_write", "rescue_test", "rescue_write"}

Raised == {"AssertionError", "KeyError"}

Finished == {"done"} \cup Raised

At(pc, i) == [pc |-> pc, i |-> i, present |-> FALSE, old |-> FALSE]

\* search_resp["facets"]["signature"][: criteria["tc_limit"]]
PrimaryLast(crit, resp) == Min(crit.tc_limit, Len(resp))

\* search_resp["facets"]["signature"][criteria["tc_limit"] : criteria["tc_startup_limit"]]
RescueFirst(crit) == crit.tc_limit + 1

RescueLast(crit, resp) == Min(crit.tc_startup_limit[1], Len(resp))

\* (a variant of the rescue loop without `if not is_startup: continue`)
RescueLoopTakesAll(crit, resp, i) ==
    IF i > RescueLast(crit, resp) THEN At("done", i) ELSE At("rescue_test", i)

\* the head of the rescue loop at entry i, up to the next test of the dictionary
RECURSIVE RescueLoop(_, _, _)
RescueLoop(crit, resp, i) ==
    IF i > RescueLast(crit, resp) THEN At("done", i)
    ELSE IF RaisesKeyError(resp[i]) THEN At("KeyError", i)
    ELSE IF ~is_startup_crash(resp[i]) THEN RescueLoop(crit, resp, i + 1)
    ELSE At("rescue_test", i)

\* (a variant that reads criteria["tc_startup_limit"] without the `not in` test)
AfterPrimaryWithoutGuard(crit, resp, i) ==
    IF ~HasStartupLimit(crit) THEN At("KeyError", i)
    ELSE IF ~(crit.tc_startup_limit[1] > crit.tc_limit) THEN At("AssertionError", i)
    ELSE At("done", i)

\* after the primary loop: return without tc_startup_limit, else the assertion
\* and the rescue loop
AfterPrimary(crit, resp, i) ==
    IF ~HasStartupLimit(crit) THEN At("done", i)
    ELSE IF ~(crit.tc_startup_limit[1] > crit.tc_limit) THEN At("AssertionError", i)
    ELSE RescueLoop(crit, resp, RescueFirst(crit))

\* if signature["count"] < self.minimum_crashes: return
BelowMinimum(crit, resp, i) == At("done", i)

\* the head of the primary loop at entry i, up to the next test of the dictionary
\* (a variant that skips an entry below the threshold and goes on: `continue`)
PrimaryLoopSkipsEntry(crit, resp, i) ==
    LET next == {j \in i..PrimaryLast(crit, resp) : resp[j].count >= minimum_crashes} IN
    IF next = {} THEN AfterPrimary(crit, resp, i)
    ELSE At("primary_test", CHOOSE j \in next : \A k \in next : j <= k)

PrimaryLoop(crit, resp, i) ==
    IF i > PrimaryLast(crit, resp) THEN AfterPrimary(crit, resp, i)
    ELSE IF resp[i].count < minimum_crashes THEN BelowMinimum(crit, resp, i)
    ELSE At("primary_test", i)

\* the test `name not in data`, and the flag `|=` reads
Test(h, d, name, pc) ==
    [pc |-> pc, i |-> h.i,
     present |-> name \in DOMAIN d,
     old |-> IF name \in DOMAIN d THEN d[name].is_startup ELSE FALSE]

\* data[name] = {"is_startup": flag}, or data[name]["is_startup"] = flag
Store(d, name, flag) ==
    [n \in DOMAIN d \cup {name} |->
        IF n = name THEN [is_startup |-> flag] ELSE d[n]]

\* the flag the primary pass stores: the entry's own for a new name, else `|=`
\* (a variant that stores the entry's own flag over the old one: `=` for `|=`)
PrimaryFlagOverwrites(h, signature) == is_startup_crash(signature)

\* (a variant that keeps the stored flag of a name already there: no `|=`)
PrimaryFlagKeepsOld(h, signature) ==
    IF h.present THEN h.old ELSE is_startup_crash(signature)

\* (a variant that toggles the stored flag: `^=` for `|=`)
PrimaryFlagToggles(h, signature) ==
    IF h.present THEN h.old # is_startup_crash(signature) ELSE is_startup_crash(signature)

PrimaryFlag(h, signature) ==
    IF h.present THEN h.old \/ is_startup_crash(signature)
    ELSE is_startup_crash(signature)

\* the flag the rescue pass stores
RescueFlag == TRUE

Upsert(c, i, flag) == <<[crit |-> c, i |-> i, is_startup |-> flag]>>

Result(h, d, up) == [h |-> h, d |-> d, up |-> up]

HandlerStep(c, crit, resp, h, d) ==
    CASE h.pc = "pending" ->
            Result(PrimaryLoop(crit, resp, 1), d, <<>>)
      [] h.pc = "primary_test" ->
            IF RaisesKeyError(resp[h.i]) THEN Result(At("KeyError", h.i), d, <<>>)
            ELSE Result(Test(h, d, resp[h.i].term, "primary_write"), d, <<>>)
      [] h.pc = "primary_write" ->
            Result(PrimaryLoop(crit, resp, h.i + 1),
                   Store(d, resp[h.i].term, PrimaryFlag(h, resp[h.i])),
                   Upsert(c, h.i, is_startup_crash(resp[h.i])))
      [] h.pc = "rescue_test" ->
            Result(Test(h, d, resp[h.i].term, "rescue_write"), d, <<>>)
      [] h.pc = "rescue_write" ->
            Result(RescueLoop(crit, resp, h.i + 1),
                   Store(d, resp[h.i].term, RescueFlag),
                   Upsert(c, h.i, RescueFlag))

\* a whole handler call on dictionary d, run without interruption
RECURSIVE RunFrom(_, _, _, _, _)
RunFrom(c, crit, resp, h, d) ==
    IF h.pc \in Finished THEN d
    ELSE LET r == HandlerStep(c, crit, resp, h, d) IN RunFrom(c, crit, resp, r.h, r.d)

RunHandler(c, crit, resp, d) == RunFrom(c, crit, resp, At("pending", 0), d)

(***************************************************************************)
(* get_signatures: the main thread.                                        *)
(***************************************************************************)
\* (a variant that waits for each search right after creating it)
DispatchThenWait ==
    /\ mpc = "dispatch"
    /\ Len(searches) < N
    /\ LET c == Len(searches) + 1 IN
        /\ searches' = Append(searches, get_params_from_criteria(criteria[c]))
        /\ handler' = [handler EXCEPT ![c] = At("pending", 0)]
        /\ mpc' = "wait"
    /\ UNCHANGED <<criteria, responses, data, waited, upserts, triage>>

\* (a variant that creates the searches without sending their queries)
DispatchWithoutSending ==
    /\ mpc = "dispatch"
    /\ Len(searches) < N
    /\ LET c == Len(searches) + 1 IN
        /\ searches' = Append(searches, get_params_from_criteria(criteria[c]))
        /\ mpc' = IF c = N THEN "wait" ELSE "dispatch"
    /\ UNCHANGED <<criteria, responses, data, waited, handler, upserts, triage>>

\* the list comprehension creates the next SuperSearch, which sends its query
Dispatch ==
    /\ mpc = "dispatch"
    /\ Len(searches) < N
    /\ LET c == Len(searches) + 1 IN
        /\ searches' = Append(searches, get_params_from_criteria(criteria[c]))
        /\ handler' = [handler EXCEPT ![c] = At("pending", 0)]
        /\ mpc' = IF c = N THEN "wait" ELSE "dispatch"
    /\ UNCHANGED <<criteria, responses, data, waited, upserts, triage>>

\* for search in searches
\* (a variant that leaves the last search out)
WaitTargetsButLast == 1..(Len(searches) - 1)

WaitTargets == 1..Len(searches)

\* search.wait() returns once the search's handler has returned
Wait ==
    /\ mpc = "wait"
    /\ waited + 1 \in WaitTargets
    /\ handler[waited + 1].pc = "done"
    /\ waited' = waited + 1
    /\ UNCHANGED <<criteria, responses, data, searches, mpc, handler, upserts, triage>>

\* search.wait() on a search whose handler raised: the library either
\* re-raises in the waiting thread or swallows the exception
WaitRaised ==
    /\ mpc = "wait"
    /\ waited + 1 \in WaitTargets
    /\ handler[waited + 1].pc \in Raised
    /\ \/ mpc' = "raised" /\ waited' = waited
       \/ mpc' = mpc /\ waited' = waited + 1
    /\ UNCHANGED <<criteria, responses, data, searches, handler, upserts, triage>>

\* return data
Return ==
    /\ mpc = "wait"
    /\ waited + 1 \notin WaitTargets
    /\ mpc' = "returned"
    /\ UNCHANGED <<criteria, responses, data, searches, waited, handler, upserts, triage>>

(***************************************************************************)
(* The handlers: the worker threads.                                       *)
(***************************************************************************)
Step(c, pc) ==
    /\ handler[c].pc = pc
    /\ LET r == HandlerStep(c, criteria[c], responses[c], handler[c], data) IN
        /\ handler' = [handler EXCEPT ![c] = r.h]
        /\ data' = r.d
        /\ upserts' = upserts \o r.up
    /\ UNCHANGED <<criteria, responses, searches, mpc, waited, triage>>

\* the response of search c arrives and the library calls handler(search_resp, data)
Respond(c) == Step(c, "pending")

PrimaryTest(c) == Step(c, "primary_test")

PrimaryWrite(c) == Step(c, "primary_write")

RescueTest(c) == Step(c, "rescue_test")

RescueWrite(c) == Step(c, "rescue_write")

Next ==
    \/ Dispatch
    \/ Wait
    \/ WaitRaised
    \/ Return
    \/ \E c \in 1..N : Respond(c)
    \/ \E c \in 1..N : PrimaryTest(c)
    \/ \E c \in 1..N : PrimaryWrite(c)
    \/ \E c \in 1..N : RescueTest(c)
    \/ \E c \in 1..N : RescueWrite(c)

Spec == Init /\ [][Next]_vars

\* no other handler call is in progress
Alone(c) == \A o \in 1..N : o # c => handler[o].pc \notin Running

NextSerial ==
    \/ Dispatch
    \/ Wait
    \/ WaitRaised
    \/ Return
    \/ \E c \in 1..N : Alone(c) /\ Respond(c)
    \/ \E c \in 1..N : Alone(c) /\ PrimaryTest(c)
    \/ \E c \in 1..N : Alone(c) /\ PrimaryWrite(c)
    \/ \E c \in 1..N : Alone(c) /\ RescueTest(c)
    \/ \E c \in 1..N : Alone(c) /\ RescueWrite(c)

SpecSerial == Init /\ [][NextSerial]_vars

(***************************************************************************)
(* get_signatures over the shipped catalog.  Only the limits of a          *)
(* criterion reach the handler; the other keys go into the query.  The     *)
(* eleven criteria are explored in runs over up to MaxCriteria consecutive *)
(* ones.  A facet is short (the facets of a run have at most MaxRows       *)
(* entries together) or, in a run over one criterion, a full primary slice *)
(* of filler entries followed by at most MaxRows entries.                  *)
(***************************************************************************)
\* (a variant whose Beta criterion has tc_startup_limit equal to tc_limit)
TOP_CRASH_IDENTIFICATION_CRITERIA_equal_limits ==
    <<[tc_limit |-> 20, tc_startup_limit |-> <<20>>],
      [tc_limit |-> 20, tc_startup_limit |-> <<30>>],
      [tc_limit |-> 10, tc_startup_limit |-> <<>>],
      [tc_limit |-> 10, tc_startup_limit |-> <<>>],
      [tc_limit |-> 5, tc_startup_limit |-> <<>>],
      [tc_limit |-> 5, tc_startup_limit |-> <<>>],
      [tc_limit |-> 5, tc_startup_limit |-> <<>>],
      [tc_limit |-> 5, tc_startup_limit |-> <<>>],
      [tc_limit |-> 5, tc_startup_limit |-> <<>>],
      [tc_limit |-> 5, tc_startup_limit |-> <<>>],
      [tc_limit |-> 5, tc_startup_limit |-> <<>>]>>

TOP_CRASH_IDENTIFICATION_CRITERIA ==
    <<[tc_limit |-> 20, tc_startup_limit |-> <<30>>],
      [tc_limit |-> 20, tc_startup_limit |-> <<30>>],
      [tc_limit |-> 10, tc_startup_limit |-> <<>>],
      [tc_limit |-> 10, tc_startup_limit |-> <<>>],
      [tc_limit |-> 5, tc_startup_limit |-> <<>>],
      [tc_limit |-> 5, tc_startup_limit |-> <<>>],
      [tc_limit |-> 5, tc_startup_limit |-> <<>>],
      [tc_limit |-> 5, tc_startup_limit |-> <<>>],
      [tc_limit |-> 5, tc_startup_limit |-> <<>>],
      [tc_limit |-> 5, tc_startup_limit |-> <<>>],
      [tc_limit |-> 5, tc_startup_limit |-> <<>>]>>

ShippedRuns ==
    LET L == Len(TOP_CRASH_IDENTIFICATION_CRITERIA) IN
    {SubSeq(TOP_CRASH_IDENTIFICATION_CRITERIA, w[1], w[2]) :
        w \in {v \in (1..L) \X (1..L) : v[1] <= v[2] /\ v[2] - v[1] < MaxCriteria}}

\* filler entries: distinct signatures at the threshold, no startup crash
FillerNames ==
    <<"F01", "F02", "F03", "F04", "F05", "F06", "F07", "F08", "F09", "F10",
      "F11", "F12", "F13", "F14", "F15", "F16", "F17", "F18", "F19", "F20">>

Filler(k) ==
    [j \in 1..k |->
        [term |-> FillerNames[j], count |-> minimum_crashes,
         facets |-> [startup_crash |-> <<"F">>]]]

RECURSIVE ShortResponsesFor(_, _)
ShortResponsesFor(cat, n) ==
    IF n = 0 THEN {<<>>}
    ELSE {Append(p[1], p[2]) :
            p \in {q \in ShortResponsesFor(cat, n - 1)
                           \X FacetsUpTo(Min(facets_size(cat[n]), MaxRows)) :
                     /\ Len(Flatten(Append(q[1], q[2]))) <= MaxRows
                     /\ WellFormedRun(Append(q[1], q[2]))}}

FullResponsesFor(cat) ==
    IF Len(cat) # 1 THEN {}
    ELSE {<<Filler(cat[1].tc_limit) \o f>> :
            f \in {g \in FacetsUpTo(Min(facets_size(cat[1]) - cat[1].tc_limit, MaxRows)) :
                     WellFormedRun(<<g>>)}}

InitShipped ==
    /\ triage = NoTriage
    /\ criteria \in ShippedRuns
    /\ responses \in ShortResponsesFor(criteria, Len(criteria)) \cup FullResponsesFor(criteria)
    /\ data = [n \in {} |-> [is_startup |-> FALSE]]
    /\ searches = <<>>
    /\ mpc = "dispatch"
    /\ waited = 0
    /\ handler = [c \in 1..Len(criteria) |-> IdleHandler]
    /\ upserts = <<>>

SpecShipped == InitShipped /\ [][Next]_vars

(***************************************************************************)
(* The run under the scheduling it has: the main thread keeps running, and *)
(* the library's worker threads deliver every response and run every       *)
(* handler call to its end.                                                *)
(***************************************************************************)
MainThread == Dispatch \/ Wait \/ WaitRaised \/ Return

Worker(c) ==
    /\ c \in 1..N
    /\ Respond(c) \/ PrimaryTest(c) \/ PrimaryWrite(c) \/ RescueTest(c) \/ RescueWrite(c)

SpecLive ==
    /\ Init
    /\ [][Next]_vars
    /\ WF_vars(MainThread)
    /\ \A c \in 1..MaxCriteria : WF_vars(Worker(c))

(***************************************************************************)
(* auto_nag/component_triagers.py: ComponentTriagers.  The constructor     *)
(* fetches the triage owner of every component from Bugzilla, leaving out  *)
(* the excluded components and teams; get_new_triage_owners goes through   *)
(* the fetched components and compares each owner with today's persons of  *)
(* the component's rotation calendar.                                      *)
(***************************************************************************)
\* ComponentName: (PRODUCT, COMPONENT)
ComponentNames == {<<"Core", "DOM">>, <<"Core", "Networking">>}

Emails == {"a@mozilla.com", "b@mozilla.com"}

Teams == {"Platform", "Necko"}

\* what Bugzilla has for a component
BugzillaComponents == [ComponentNames -> [team_name : Teams, triage_owner : Emails]]

\* calendar.get_persons("today"): a list of (name, email)
Persons == {<<"A", "a@mozilla.com">>, <<"B", "b@mozilla.com">>}

PersonLists == UNION {[1..n -> Persons] : n \in 0..MaxPersons}

\* round_robin.get_component_calendar: <<>> for None, <<persons>> for a calendar
Calendars == {<<>>} \cup {<<persons>> : persons \in PersonLists}

\* the orders in which the items of a set can be in a dictionary
Orderings(S) ==
    {f \in [1..Cardinality(S) -> S] : \A i, j \in DOMAIN f : f[i] = f[j] => i = j}

\* _fetch_triagers.handler: the components the dictionary comprehension keeps
FetchedComponents(bugzilla, excluded_components, excluded_teams) ==
    {pc \in ComponentNames :
        /\ bugzilla[pc].team_name \notin excluded_teams
        /\ pc \notin excluded_components}

get_rotation_triage_owners(calendars, pc) ==
    LET calendar == calendars[pc] IN
    IF calendar = <<>> THEN <<>>
    ELSE [k \in 1..Len(calendar[1]) |-> calendar[1][k][2]]

\* (a variant that compares the current owner with the first person only)
NeedsNewTriagerFirstOnly(new_triagers, current_triager) ==
    /\ new_triagers # <<>>
    /\ new_triagers[1] # current_triager

\* new_triagers and not any(new_triager == current_triager for ...)
NeedsNewTriager(new_triagers, current_triager) ==
    /\ new_triagers # <<>>
    /\ ~\E k \in 1..Len(new_triagers) : new_triagers[k] = current_triager

TriageOwner(pc, bugzilla_email) ==
    [product |-> pc[1], component |-> pc[2], bugzilla_email |-> bugzilla_email]

InitTriage ==
    /\ triage \in [pc : {"new"},
                   bugzilla : BugzillaComponents,
                   excluded_components : SUBSET ComponentNames,
                   excluded_teams : SUBSET Teams,
                   calendars : [ComponentNames -> Calendars],
                   triagers : {<<>>},
                   k : {0},
                   result : {<<>>}]
    /\ criteria = <<>>
    /\ responses = <<>>
    /\ data = [n \in {} |-> [is_startup |-> FALSE]]
    /\ searches = <<>>
    /\ mpc = "none"
    /\ waited = 0
    /\ handler = <<>>
    /\ upserts = <<>>

\* ComponentTriagers.__init__: self.triagers filled by _fetch_triagers, in
\* the order the products' handlers and the comprehension insert the keys
FetchTriagers ==
    /\ triage.pc = "new"
    /\ \E order \in Orderings(FetchedComponents(triage.bugzilla, triage.excluded_components,
                                                triage.excluded_teams)) :
        triage' = [triage EXCEPT
                     !.pc = "fetched",
                     !.triagers = [j \in DOMAIN order |->
                                     <<order[j], triage.bugzilla[order[j]].triage_owner>>]]
    /\ UNCHANGED <<criteria, responses, data, searches, mpc, waited, handler, upserts>>

\* get_new_triage_owners is called: triagers = []
GetNewTriageOwners ==
    /\ triage.pc = "fetched"
    /\ triage' = [triage EXCEPT !.pc = "loop", !.k = 0, !.result = <<>>]
    /\ UNCHANGED <<criteria, responses, data, searches, mpc, waited, handler, upserts>>

\* one iteration of: for (product, components), current_triager in self.triagers.items()
NextTriager ==
    /\ triage.pc = "loop"
    /\ triage.k < Len(triage.triagers)
    /\ LET item == triage.triagers[triage.k + 1]
           new_triagers == get_rotation_triage_owners(triage.calendars, item[1])
       IN triage' = [triage EXCEPT
                       !.k = triage.k + 1,
                       !.result = IF NeedsNewTriager(new_triagers, item[2])
                                  THEN Append(triage.result, TriageOwner(item[1], new_triagers[1]))
                                  ELSE triage.result]
    /\ UNCHANGED <<criteria, responses, data, searches, mpc, waited, handler, upserts>>

\* return triagers
ReturnTriagers ==
    /\ triage.pc = "loop"
    /\ triage.k = Len(triage.triagers)
    /\ triage' = [triage EXCEPT !.pc = "returned"]
    /\ UNCHANGED <<criteria, responses, data, searches, mpc, waited, handler, upserts>>

NextTriage == FetchTriagers \/ GetNewTriageOwners \/ NextTriager \/ ReturnTriagers

SpecTriage == InitTriage /\ [][NextTriage]_vars

(***************************************************************************)
(* Vocabulary of the properties.                                           *)
(***************************************************************************)
\* the entry is a startup crash: its startup sub-facet has the term "T"
StartupEntry(e) ==
    /\ "startup_crash" \in DOMAIN e.facets
    /\ \E k \in DOMAIN e.facets.startup_crash : e.facets.startup_crash[k] = "T"

InMapAsStartup(name) == name \in DOMAIN data /\ data[name].is_startup

\* the indices of the rescue slice of criterion c that the response has
RescueSlice(c) ==
    IF HasStartupLimit(criteria[c])
    THEN (criteria[c].tc_limit + 1)..Min(criteria[c].tc_startup_limit[1], Len(responses[c]))
    ELSE {}

\* the indices of the primary slice of criterion c that the response has
PrimarySlice(c) == 1..Min(criteria[c].tc_limit, Len(responses[c]))

Misconfigured(crit) ==
    HasStartupLimit(crit) /\ crit.tc_startup_limit[1] <= crit.tc_limit

\* the name is the term of no other facet entry of the run than entry i of c
OnlyAt(name, c, i) ==
    \A o \in 1..N : \A j \in 1..Len(responses[o]) :
        responses[o][j].term = name => (o = c /\ j = i)

(***************************************************************************)
(* C1: for a criterion with tc_startup_limit whose handler has returned,   *)
(* every startup crash of the rescue slice (indices tc_limit ..            *)
(* tc_startup_limit-1) is in the dictionary with is_startup = true, also   *)
(* when the primary pass stopped early.  The code returns from the handler *)
(* at the first primary entry below minimum_crashes and never reaches the  *)
(* rescue pass.                                                            *)
(***************************************************************************)
C1_RescueSliceMerged ==
    \A c \in 1..N :
        handler[c].pc = "done" =>
            \A i \in RescueSlice(c) :
                StartupEntry(responses[c][i]) => InMapAsStartup(responses[c][i].term)

(***************************************************************************)
(* C2: upserts are serialized, so the returned dictionary has lost no      *)
(* contribution: every upsert a handler performed is in it, and a name     *)
(* some handler stored as a startup crash has is_startup = true.  The code *)
(* takes no lock: two handlers can test the same name before either        *)
(* stores.                                                                 *)
(***************************************************************************)
C2_NoContributionLost ==
    mpc = "returned" =>
        \A k \in 1..Len(upserts) :
            LET name == responses[upserts[k].crit][upserts[k].i].term IN
            /\ name \in DOMAIN data
            /\ upserts[k].is_startup => data[name].is_startup

(***************************************************************************)
(* C3: a handler upserts no primary-pass entry that is, or comes after, an *)
(* entry of its facet with count < minimum_crashes, whatever the counts of *)
(* the later entries.                                                      *)
(***************************************************************************)
C3_EarlyExit ==
    \A k \in 1..Len(upserts) :
        LET c == upserts[k].crit IN
        upserts[k].i <= criteria[c].tc_limit =>
            \A j \in 1..upserts[k].i : responses[c][j].count >= minimum_crashes

\* a handler has returned at a first entry below the threshold although the
\* second entry of its primary slice reaches it, and that entry's name is
\* not in the dictionary
C3_Witness ==
    \E c \in 1..N :
        /\ handler[c].pc = "done"
        /\ 2 \in PrimarySlice(c)
        /\ responses[c][1].count < minimum_crashes
        /\ responses[c][2].count >= minimum_crashes
        /\ responses[c][2].term \notin DOMAIN data

(***************************************************************************)
(* C4: with every handler run as one uninterrupted call, the dictionary    *)
(* get_signatures returns is the one that running the handlers in catalog  *)
(* order gives, whatever the order in which they ran.                      *)
(***************************************************************************)
RECURSIVE MergeInCatalogOrder(_)
MergeInCatalogOrder(n) ==
    IF n = 0 THEN [x \in {} |-> [is_startup |-> FALSE]]
    ELSE RunHandler(n, criteria[n], responses[n], MergeInCatalogOrder(n - 1))

C4_OrderIndependent ==
    mpc = "returned" => data = MergeInCatalogOrder(N)

\* the second criterion's handler stored a name before the first one's
\* stored the same name with another flag, and the run has returned
C4_Witness ==
    /\ mpc = "returned"
    /\ \E k, l \in 1..Len(upserts) :
        /\ k < l
        /\ upserts[k].crit = 2
        /\ upserts[l].crit = 1
        /\ responses[2][upserts[k].i].term = responses[1][upserts[l].i].term
        /\ upserts[k].is_startup # upserts[l].is_startup

(***************************************************************************)
(* C5: once a name has is_startup = true in the dictionary it keeps it in  *)
(* every later state.  Without serialization a primary pass that tested    *)
(* the name before another handler stored it stores its own flag over it.  *)
(***************************************************************************)
C5_StickyTrue ==
    [][\A name \in DOMAIN data :
          data[name].is_startup => (name \in DOMAIN data' /\ data'[name].is_startup)]_vars

(***************************************************************************)
(* C6: get_signatures returns only after every criterion's query was       *)
(* dispatched and its handler has run to its end, and the dictionary does  *)
(* not change after the return.                                            *)
(***************************************************************************)
C6_ReturnAfterHandlers ==
    /\ [](mpc = "returned" =>
            /\ Len(searches) = N
            /\ \A c \in 1..N : handler[c].pc \in Finished)
    /\ [][mpc = "returned" => data' = data]_vars

\* a run of two criteria has returned a dictionary both handlers stored into
C6_Witness ==
    /\ mpc = "returned"
    /\ N = 2
    /\ \A c \in 1..N : \E k \in 1..Len(upserts) : upserts[k].crit = c

(***************************************************************************)
(* C7: a startup crash that appears only in a criterion's rescue slice,    *)
(* with a count below minimum_crashes, is in the returned dictionary with  *)
(* is_startup = true.  (Stated for handlers that returned normally.)       *)
(***************************************************************************)
C7_RescueBypass ==
    mpc = "returned" =>
        \A c \in 1..N :
            handler[c].pc = "done" =>
                \A i \in RescueSlice(c) :
                    LET e == responses[c][i] IN
                    (StartupEntry(e) /\ e.count < minimum_crashes /\ OnlyAt(e.term, c, i))
                        => InMapAsStartup(e.term)

(***************************************************************************)
(* C8: with a criterion whose tc_startup_limit is not above its tc_limit   *)
(* the run fails before any query is dispatched: no search is created, no  *)
(* handler runs, nothing is returned.                                      *)
(***************************************************************************)
C8_FailsBeforeDispatch ==
    (\E c \in 1..N : Misconfigured(criteria[c])) =>
        /\ searches = <<>>
        /\ \A c \in 1..N : handler[c].pc = "idle"
        /\ mpc # "returned"

(***************************************************************************)
(* C9: a facet entry without the startup sub-facet counts as not a startup *)
(* crash: no handler call ends in an exception because of it.              *)
(***************************************************************************)
C9_MissingFacetTolerated ==
    \A c \in 1..N : handler[c].pc # "KeyError"

UpsertName(k) == responses[upserts[k].crit][upserts[k].i].term

C11_PrimaryOrMerge ==
    /\ \A k \in 1..Len(upserts) : UpsertName(k) \in DOMAIN data
    /\ \A name \in DOMAIN data :
        data[name].is_startup =
            (\E k \in 1..Len(upserts) : UpsertName(k) = name /\ upserts[k].is_startup)

\* two criteria reported the same name in their primary passes, the first
\* upsert without a startup crash and the second with one, both handlers
\* have returned and the name is a startup crash in the dictionary
C11_Witness ==
    \E k, l \in 1..Len(upserts) :
        /\ k < l
        /\ upserts[k].crit # upserts[l].crit
        /\ UpsertName(k) = UpsertName(l)
        /\ upserts[k].i \in PrimarySlice(upserts[k].crit)
        /\ upserts[l].i \in PrimarySlice(upserts[l].crit)
        /\ ~upserts[k].is_startup
        /\ upserts[l].is_startup
        /\ handler[upserts[k].crit].pc = "done"
        /\ handler[upserts[l].crit].pc = "done"
        /\ InMapAsStartup(UpsertName(k))

(***************************************************************************)
(* C12: running a criterion's handler on its facet a second time changes   *)
(* nothing: from every dictionary a run holds while no handler call is in  *)
(* progress, two calls in a row give the dictionary one call gives; and    *)
(* when the catalog lists one criterion several times (the shipped one has *)
(* such duplicates) and the queries return the same facet, the handlers    *)
(* together leave what one of them alone leaves.                           *)
(***************************************************************************)
Once(c) == RunHandler(c, criteria[c], responses[c], data)

Twice(c) == RunHandler(c, criteria[c], responses[c], Once(c))

SameQuery(c, o) == criteria[c] = criteria[o] /\ responses[c] = responses[o]

C12_HandlerIdempotent ==
    /\ (\A o \in 1..N : handler[o].pc \notin Running) => \A c \in 1..N : Twice(c) = Once(c)
    /\ (N > 1 /\ \A c \in 1..N : SameQuery(1, c) /\ handler[c].pc \in Finished)
            => data = MergeInCatalogOrder(1)

\* a catalog that lists one criterion twice: both handlers have stored the
\* same startup crash and returned, and a further call would find the name
\* in the dictionary
C12_Witness ==
    /\ N = 2
    /\ SameQuery(1, 2)
    /\ \A c \in 1..N :
        /\ handler[c].pc = "done"
        /\ \E k \in 1..Len(upserts) : upserts[k].crit = c /\ upserts[k].is_startup
    /\ \E name \in DOMAIN data : data[name].is_startup

(***************************************************************************)
(* C14: a criterion whose query returned no facet entry leaves the         *)
(* dictionary alone, with or without tc_startup_limit: its handler stores  *)
(* nothing and no step of it changes the dictionary, it returns without an *)
(* exception (for a criterion whose limits are in order: the assertion on  *)
(* the limits is C8's subject), and the dictionary get_signatures returns  *)
(* is the one the other criteria's handlers give, run one after another.   *)
(***************************************************************************)
RECURSIVE MergeWithout(_, _)
MergeWithout(n, c) ==
    IF n = 0 THEN [x \in {} |-> [is_startup |-> FALSE]]
    ELSE IF n = c THEN MergeWithout(n - 1, c)
    ELSE RunHandler(n, criteria[n], responses[n], MergeWithout(n - 1, c))

EmptyFacet(c) == Len(responses[c]) = 0

C14_EmptyFacetNoOp ==
    /\ [](\A c \in 1..N :
            EmptyFacet(c) =>
                /\ handler[c].pc \notin Running
                /\ \A k \in 1..Len(upserts) : upserts[k].crit # c
                /\ ~Misconfigured(criteria[c]) => handler[c].pc \notin Raised
                /\ mpc = "returned" => data = MergeWithout(N, c))
    /\ [][\A c \in 1..N :
            (EmptyFacet(c) /\ handler'[c] # handler[c]) => data' = data]_vars

\* a run of two criteria has returned: the query of one returned no entry
\* and its handler returned, the other's handler stored a name
C14_Witness ==
    /\ mpc = "returned"
    /\ \E c, o \in 1..N :
        /\ EmptyFacet(c)
        /\ handler[c].pc = "done"
        /\ \E k \in 1..Len(upserts) : upserts[k].crit = o
        /\ data # <<>>

\* the handler of a criterion with tc_startup_limit has returned from a
\* query without entries
C14_WitnessStartupLimit ==
    \E c \in 1..N :
        /\ EmptyFacet(c)
        /\ HasStartupLimit(criteria[c])
        /\ handler[c].pc = "done"

(***************************************************************************)
(* C19: every name in the dictionary is the term of a facet entry of a     *)
(* criterion whose handler has run, and that entry is either in the        *)
(* primary slice (index below tc_limit) with count >= minimum_crashes and  *)
(* no entry below minimum_crashes before it, or a startup crash in the     *)
(* rescue slice (indices tc_limit .. tc_startup_limit-1) of a criterion    *)
(* with tc_startup_limit.  No handler stores an entry at or beyond         *)
(* tc_limit for a criterion without tc_startup_limit, nor one at or beyond *)
(* tc_startup_limit.                                                       *)
(***************************************************************************)
PrimaryContribution(c, i) ==
    /\ i \in PrimarySlice(c)
    /\ \A j \in 1..i : responses[c][j].count >= minimum_crashes

RescueContribution(c, i) ==
    /\ i \in RescueSlice(c)
    /\ StartupEntry(responses[c][i])

HasRun(c) == handler[c].pc \notin {"idle", "pending"}

C19_OnlyEligibleNames ==
    /\ \A name \in DOMAIN data :
        \E c \in 1..N : \E i \in 1..Len(responses[c]) :
            /\ HasRun(c)
            /\ responses[c][i].term = name
            /\ PrimaryContribution(c, i) \/ RescueContribution(c, i)
    /\ \A k \in 1..Len(upserts) :
        LET c == upserts[k].crit IN
        /\ PrimaryContribution(c, upserts[k].i) \/ RescueContribution(c, upserts[k].i)
        /\ ~HasStartupLimit(criteria[c]) => upserts[k].i <= criteria[c].tc_limit
        /\ HasStartupLimit(criteria[c]) => upserts[k].i <= criteria[c].tc_startup_limit[1]

\* a handler has returned and left in the dictionary a name that only its
\* rescue slice has, a startup crash with a count below minimum_crashes
C19_Witness ==
    \E c \in 1..N : \E i \in RescueSlice(c) :
        /\ handler[c].pc = "done"
        /\ StartupEntry(responses[c][i])
        /\ responses[c][i].count < minimum_crashes
        /\ OnlyAt(responses[c][i].term, c, i)
        /\ responses[c][i].term \in DOMAIN data

C18_EventuallyReturns ==
    /\ <>(mpc \in {"returned", "raised"})
    /\ [](mpc = "raised" => \E c \in 1..N : handler[c].pc \in Raised)
    /\ []((mpc = "wait" /\ waited < N) =>
            /\ waited + 1 <= Len(searches)
            /\ handler[waited + 1].pc # "idle")

\* get_signatures has returned from a run whose second query completed and
\* stored a name before the first one's handler stored anything
C18_Witness ==
    /\ mpc = "returned"
    /\ N = 2
    /\ waited = 2
    /\ Len(upserts) > 1
    /\ upserts[1].crit = 2
    /\ upserts[Len(upserts)].crit = 1

(***************************************************************************)
(* C16: every criterion of TOP_CRASH_IDENTIFICATION_CRITERIA has a         *)
(* tc_limit above 0 and, when it has a tc_startup_limit, one above its     *)
(* tc_limit; so in a run over the shipped criteria no handler ends in the  *)
(* AssertionError of the limits' assertion, whatever the responses and the *)
(* order of the completions.                                               *)
(***************************************************************************)
C16_ShippedCatalogValid ==
    /\ \A k \in DOMAIN TOP_CRASH_IDENTIFICATION_CRITERIA :
        LET crit == TOP_CRASH_IDENTIFICATION_CRITERIA[k] IN
        /\ crit.tc_limit > 0
        /\ HasStartupLimit(crit) => crit.tc_startup_limit[1] > crit.tc_limit
    /\ \A c \in 1..N : handler[c].pc # "AssertionError"

\* the handler of a shipped criterion with tc_startup_limit went through
\* its whole primary slice, passed the assertion, stored a startup crash of
\* the rescue slice and returned
C16_Witness ==
    \E c \in 1..N :
        /\ HasStartupLimit(criteria[c])
        /\ handler[c].pc = "done"
        /\ \E k \in 1..Len(upserts) :
            /\ upserts[k].crit = c
            /\ upserts[k].i > criteria[c].tc_limit

(***************************************************************************)
(* C15: get_new_triage_owners returns a TriageOwner for a component of the *)
(* fetched triagers exactly when today's rotation of the component has     *)
(* persons and the triage owner Bugzilla has is none of them; its email is *)
(* the one of the first person of the rotation; no component is returned   *)
(* twice; a component without a rotation calendar, and one that was not    *)
(* fetched, is never returned.                                             *)
(***************************************************************************)
Returned(pc) ==
    \E k \in 1..Len(triage.result) :
        triage.result[k].product = pc[1] /\ triage.result[k].component = pc[2]

Fetched(pc) == \E k \in 1..Len(triage.triagers) : triage.triagers[k][1] = pc

PersonsToday(pc) == IF triage.calendars[pc] = <<>> THEN <<>> ELSE triage.calendars[pc][1]

C15_NewTriageOwners ==
    triage.pc = "returned" =>
        /\ \A pc \in ComponentNames :
            Returned(pc) <=>
                /\ Fetched(pc)
                /\ PersonsToday(pc) # <<>>
                /\ \A k \in 1..Len(PersonsToday(pc)) :
                    PersonsToday(pc)[k][2] # triage.bugzilla[pc].triage_owner
        /\ \A k \in 1..Len(triage.result) :
            LET pc == <<triage.result[k].product, triage.result[k].component>> IN
            /\ pc \in ComponentNames
            /\ triage.calendars[pc] # <<>>
            /\ triage.result[k].bugzilla_email = PersonsToday(pc)[1][2]
            /\ \A l \in 1..Len(triage.result) : triage.result[l] = triage.result[k] => l = k
        /\ \A k, l \in 1..Len(triage.result) :
            (triage.result[k].product = triage.result[l].product
             /\ triage.result[k].component = triage.result[l].component) => k = l

\* get_new_triage_owners has returned one component, with the first person
\* of its rotation, and not the other fetched one, whose triage owner is
\* the second person of its rotation
C15_Witness ==
    /\ triage.pc = "returned"
    /\ Len(triage.result) = 1
    /\ \E pc \in ComponentNames :
        /\ Fetched(pc)
        /\ ~Returned(pc)
        /\ Len(PersonsToday(pc)) = 2
        /\ PersonsToday(pc)[1][2] # triage.bugzilla[pc].triage_owner
        /\ PersonsToday(pc)[2][2] = triage.bugzilla[pc].triage_owner

====
